---- MODULE Spec2Model ----
(***************************************************************************)
(* Model of addon/components/filter-content/component.js: the              *)
(* FilterContentComponent, which filters `content` against `query` over    *)
(* the dot-notated `properties`, re-filtering through a debounced timer.   *)
(*                                                                         *)
(* JavaScript strings are sequences of one-character strings.  JavaScript  *)
(* values are records with one field per kind of payload, so that values   *)
(* of different kinds can be compared.                                     *)
(***************************************************************************)
EXTENDS Integers, Sequences, FiniteSets, TLC

VARIABLES
  content,          \* the collection to filter
  properties,       \* the raw, space-delimited string of dot-notated paths
  query,            \* the raw query string
  filteredContent,  \* what applyFilter last set
  debounceFilter,   \* whether the timer of the debounced applyFilter is running
  isDestroyed,      \* whether willDestroy has run
  lastCaller        \* who called applyFilter last: "init" or "debounce"

vars == <<content, properties, query, filteredContent, debounceFilter, isDestroyed,
          lastCaller>>

(***************************************************************************)
(* Bounds of the model and constants of the program.                       *)
(***************************************************************************)
\* the longest enumerated raw `properties` string (SpecNormalize)
MaxPropLen == 3
\* the longest `content` collection (Spec, LiveSpec)
MaxContent == 2
\* `if (inception > 100) { throw ... }`
RecursionLimit == 100

(***************************************************************************)
(* JavaScript values.                                                      *)
(***************************************************************************)
Str(s) == [t |-> "string", s |-> s, n |-> 0, b |-> FALSE, e |-> <<>>, p |-> <<>>]
Num(n) == [t |-> "number", s |-> <<>>, n |-> n, b |-> FALSE, e |-> <<>>, p |-> <<>>]
Bool(b) == [t |-> "boolean", s |-> <<>>, n |-> 0, b |-> b, e |-> <<>>, p |-> <<>>]
Null == [t |-> "null", s |-> <<>>, n |-> 0, b |-> FALSE, e |-> <<>>, p |-> <<>>]
Undefined == [t |-> "undefined", s |-> <<>>, n |-> 0, b |-> FALSE, e |-> <<>>, p |-> <<>>]
\* an array with the elements e
Arr(e) == [t |-> "array", s |-> <<>>, n |-> 0, b |-> FALSE, e |-> e, p |-> <<>>]
\* an object with the own properties p, a sequence of <<key, value>> pairs
Obj(p) == [t |-> "object", s |-> <<>>, n |-> 0, b |-> FALSE, e |-> <<>>, p |-> p]

\* Ember.typeOf
typeOf(v) == v.t

\* JavaScript's ToBoolean, the test behind `||`, `!` and `? :`
Truthy(v) ==
  CASE v.t = "string" -> v.s # <<>>
    [] v.t = "number" -> v.n # 0
    [] v.t = "boolean" -> v.b
    [] v.t \in {"null", "undefined"} -> FALSE
    [] OTHER -> TRUE

\* Array.prototype.concat with one argument: an array argument is spread,
\* any other value is appended
Concat(values, x) == IF x.t = "array" THEN values \o x.e ELSE Append(values, x)

(***************************************************************************)
(* Strings and the regular expressions of the component.                   *)
(***************************************************************************)
Period == "."
Space == " "
Backslash == "\\"
OpenParen == "("
AtEach == <<"@", "e", "a", "c", "h">>

WordChars == {"a", "b", "c", "d", "e", "f", "g", "h", "i", "l", "m", "n", "r",
              "s", "t", "u", "x", "R", "0", "1", "2", "3", "_"}

\* the character class [\w\s\@\.\-]
IsValidPropChar(ch) == ch \in WordChars \cup {Space, "@", Period, "-"}

RECURSIVE StripInvalid(_)
\* .replace(/[^\w\s\@\.\-]+/g, '')
StripInvalid(s) ==
  IF s = <<>> THEN <<>>
  ELSE IF IsValidPropChar(Head(s)) THEN <<Head(s)>> \o StripInvalid(Tail(s))
  ELSE StripInvalid(Tail(s))

RECURSIVE RunOf(_, _)
\* the length of the run of the character ch that starts the string
RunOf(s, ch) == IF s # <<>> /\ Head(s) = ch THEN 1 + RunOf(Tail(s), ch) ELSE 0

PeriodRun(s) == RunOf(s, Period)

Drop(s, k) == SubSeq(s, k + 1, Len(s))

RECURSIVE CollapsePeriods(_)
\* .replace(/[\.]{2,}/g, '.')
CollapsePeriods(s) ==
  IF s = <<>> THEN <<>>
  ELSE IF Head(s) = Period THEN <<Period>> \o CollapsePeriods(Drop(s, PeriodRun(s)))
  ELSE <<Head(s)>> \o CollapsePeriods(Tail(s))

\* what `\1?` consumes after the whitespace: the k periods that group 1
\* captured, when they follow; nothing when group 1 did not take part
BackrefLen(after, k) == IF k > 0 /\ PeriodRun(after) >= k THEN k ELSE 0

RECURSIVE NormalizeDelimiters(_)
\* .replace(/(\.+)?\s\1?/g, ' ')
NormalizeDelimiters(s) ==
  IF s = <<>> THEN <<>>
  ELSE LET k == PeriodRun(s)
           afterRun == Drop(s, k)
       IN IF afterRun # <<>> /\ Head(afterRun) = Space
          THEN <<Space>> \o NormalizeDelimiters(
                   Drop(Tail(afterRun), BackrefLen(Tail(afterRun), k)))
          ELSE <<Head(s)>> \o NormalizeDelimiters(Tail(s))

RECURSIVE SplitRuns(_, _, _)
\* String.prototype.split on runs of one separator character (/\s+/, /\.+/):
\* the pieces between the runs, with an empty piece before a leading run and
\* after a trailing run; `piece` is the piece being read
SplitRuns(s, sep, piece) ==
  IF s = <<>> THEN <<piece>>
  ELSE IF Head(s) = sep
       THEN <<piece>> \o SplitRuns(Drop(s, RunOf(s, sep)), sep, <<>>)
       ELSE SplitRuns(Tail(s), sep, Append(piece, Head(s)))

RECURSIVE Join(_)
\* Array.prototype.join('.')
Join(pieces) ==
  IF pieces = <<>> THEN <<>>
  ELSE IF Len(pieces) = 1 THEN pieces[1]
  ELSE pieces[1] \o <<Period>> \o Join(Tail(pieces))

NonEmpty(z) == z # <<>>

\* the `.filter(z => z !== '')` that ends normalizedProperties
RemoveEmpty(pieces) == SelectSeq(pieces, NonEmpty)

\* the computed property normalizedProperties, for the raw string p
normalizedProperties(p) ==
  IF p = <<>> THEN <<>>
  ELSE RemoveEmpty(SplitRuns(NormalizeDelimiters(CollapsePeriods(StripInvalid(p))),
                             Space, <<>>))

\* Ember.isPresent of a string: not empty and not only whitespace
isPresent(q) == \E i \in 1..Len(q) : q[i] # Space

IsNotBackslash(ch) == ch # Backslash

\* query.replace(/\\+/g, '')
StripBackslashes(q) == SelectSeq(q, IsNotBackslash)

\* the computed property normalizedQuery, for the raw string q
normalizedQuery(q) == IF isPresent(q) THEN StripBackslashes(q) ELSE <<>>

\* whether b occurs in a as a contiguous run of characters
Contains(a, b) ==
  \E i \in 0..(Len(a) - Len(b)) : SubSeq(a, i + 1, i + Len(b)) = b

\* `new RegExp(b, 'g')` throws a SyntaxError for a pattern with an unclosed
\* group; the query alphabet of the model has no other metacharacter
RegExpThrows(b) == \E i \in 1..Len(b) : b[i] = OpenParen

\* `a.match(regex)` is a TypeError unless a is a string: numbers and
\* booleans have no match method
MatchThrows(a) == typeOf(a) # "string"

matchTypes == {"boolean", "number", "string"}

\* mutant: the catch block returns a truthy value
CaughtResultTruthy == "true"

\* the value aContainsB returns when an exception reaches its catch block:
\* the function falls off its end
CaughtResult == "undefined"

\* aContainsB(a, b) for a value a and a string b (the normalized query, whose
\* type is always in matchTypes): "true", "false", or "undefined" when the
\* exception was caught
aContainsB(a, b) ==
  IF typeOf(a) \in matchTypes
  THEN IF RegExpThrows(b) \/ MatchThrows(a) THEN CaughtResult
       ELSE IF Contains(a.s, b) THEN "true" ELSE "false"
  ELSE "false"

(***************************************************************************)
(* getContentProps.                                                        *)
(***************************************************************************)
RECURSIVE Lookup(_, _)
\* obj[key] for the own properties p of an object
Lookup(p, key) ==
  IF p = <<>> THEN Undefined
  ELSE IF Head(p)[1] = key THEN Head(p)[2]
  ELSE Lookup(Tail(p), key)

\* Ember.get(item, key): throws on null and undefined; the empty key gives
\* the item itself; a key the item does not have gives undefined.  No key of
\* the model names a built-in property of arrays or strings.
EmberGet(item, key) ==
  IF typeOf(item) \in {"null", "undefined"} THEN [thrown |-> TRUE, value |-> Undefined]
  ELSE IF key = <<>> THEN [thrown |-> FALSE, value |-> item]
  ELSE IF typeOf(item) = "object" THEN [thrown |-> FALSE, value |-> Lookup(item.p, key)]
  ELSE [thrown |-> FALSE, value |-> Undefined]

\* mutant: the `|| []` is missing
OrEmptyArrayMissing(x) == x

\* `x || []`
OrEmptyArray(x) == IF Truthy(x) THEN x ELSE Arr(<<>>)

\* `if (inception > 100) { throw ... }`
ExceedsLimit(inception) == inception > RecursionLimit

\* `++inception`, evaluated for the k-th recursive call that one activation
\* makes: the variable is incremented in place, so the k-th call gets
\* inception + k
ChildInception(inception, k) == inception + k

\* what a call of getContentProps gives its caller: the array it returns, or
\* undefined when its catch block caught an exception
AsValue(r) == IF r.thrown THEN Undefined ELSE Arr(r.values)

RECURSIVE FlattenRange(_, _, _)
\* pieces[lo] \o ... \o pieces[hi]: what `values = values.concat(...)` has
\* accumulated once item.forEach has visited the elements lo..hi in order
FlattenRange(pieces, lo, hi) ==
  IF lo > hi THEN <<>>
  ELSE IF lo = hi THEN pieces[lo]
  ELSE LET mid == (lo + hi) \div 2
       IN FlattenRange(pieces, lo, mid) \o FlattenRange(pieces, mid + 1, hi)

RECURSIVE getContentProps(_, _, _)
\* getContentProps(item, property, inception): thrown (the catch block caught
\* an exception and the call returned undefined) or the values.  A split
\* never gives an empty array, so `if (!propArr.length)` is never taken, and
\* `values && !!values.length ? values : []` returns values as they are.  calls
\* records, for this call and every call below it, the depth argument, the
\* number of segments of its property, and whether it threw.
getContentProps(item, property, inception) ==
  LET propArr == SplitRuns(property, Period, <<>>)
      prop == Head(propArr)
      rest == Tail(propArr)
      Me(threw) == [inception |-> inception, segments |-> Len(propArr), thrown |-> threw]
      Throw == [thrown |-> TRUE, values |-> <<>>, calls |-> {Me(TRUE)}]
  IN IF ExceedsLimit(inception) THEN Throw
     ELSE IF prop = AtEach
     THEN IF typeOf(item) \in {"null", "undefined"} THEN Throw
          ELSE IF typeOf(item) = "array"
          THEN LET sub[k \in 1..Len(item.e)] ==
                     getContentProps(item.e[k], Join(rest), ChildInception(inception, k))
                   piece[k \in 1..Len(item.e)] ==
                     Concat(<<>>, IF rest # <<>> THEN AsValue(sub[k]) ELSE item.e[k])
               IN [thrown |-> FALSE,
                   values |-> FlattenRange(piece, 1, Len(item.e)),
                   calls |-> {Me(FALSE)} \cup
                     (IF rest # <<>>
                      THEN UNION {sub[k].calls : k \in 1..Len(item.e)}
                      ELSE {})]
          ELSE [thrown |-> FALSE, values |-> <<>>, calls |-> {Me(FALSE)}]
     ELSE LET got == EmberGet(item, prop)
              z == OrEmptyArray(got.value)
              sub == getContentProps(z, Join(rest), ChildInception(inception, 1))
          IN IF got.thrown THEN Throw
             ELSE [thrown |-> FALSE,
                   values |-> Concat(<<>>, IF rest # <<>> THEN AsValue(sub) ELSE z),
                   calls |-> {Me(FALSE)} \cup (IF rest # <<>> THEN sub.calls ELSE {})]

(***************************************************************************)
(* applyFilter.                                                            *)
(***************************************************************************)
\* `this.getContentProps(item, prop) || []`
TopLevelValues(item, prop) == OrEmptyArray(AsValue(getContentProps(item, prop, 0))).e

RECURSIVE GatherValues(_, _, _)
\* propertiesTmp.forEach(prop => values = values.concat(...))
GatherValues(values, item, props) ==
  IF props = <<>> THEN values
  ELSE GatherValues(values \o TopLevelValues(item, Head(props)), item, Tail(props))

\* `this.aContainsB(...) ? true : false`: undefined is falsy
IsTrue(result) == result = "true"

\* mutant: the loop body runs once, so only the first value is tried
WhileLoopFirstOnly(matched, values, q) ==
  IF matched = FALSE /\ values # <<>>
  THEN [matched |-> IsTrue(aContainsB(Head(values), q)), values |-> Tail(values)]
  ELSE [matched |-> matched, values |-> values]

RECURSIVE WhileLoop(_, _, _)
\* while (matched === false && values.length) {
\*   matched = this.aContainsB(values.shift(), query) ? true : false; }
WhileLoop(matched, values, q) ==
  IF matched = FALSE /\ values # <<>>
  THEN WhileLoop(IsTrue(aContainsB(Head(values), q)), Tail(values), q)
  ELSE [matched |-> matched, values |-> values]

\* `values = []` after the loop
ResetValues(values) == <<>>

\* content.filter(item => ...) from the item at index `first` on: `values`
\* lives outside the callback and is threaded through the items.  After item
\* k: the items kept so far, `values`, and what the callback returned.
FilterSteps(c, props, q, first) ==
  LET step[k \in (first - 1)..Len(c)] ==
        IF k < first THEN [kept |-> <<>>, values |-> <<>>, matched |-> FALSE]
        ELSE LET before == step[k - 1]
                 loop == WhileLoop(FALSE, GatherValues(before.values, c[k], props), q)
             IN [kept |-> IF loop.matched THEN Append(before.kept, c[k]) ELSE before.kept,
                 values |-> ResetValues(loop.values),
                 matched |-> loop.matched]
  IN step

FilterFrom(c, props, q, first) ==
  IF Len(c) < first THEN <<>> ELSE FilterSteps(c, props, q, first)[Len(c)].kept

\* mutant: the iteration starts one item late
FilterItemsSkippingFirst(c, props, q) == FilterFrom(c, props, q, 2)

\* content.filter visits every item, the first included
FilterItems(c, props, q) == FilterFrom(c, props, q, 1)

\* mutant: the test of the query is missing
ShouldFilterIgnoringQuery(c, props, q) == c # <<>> /\ props # <<>>

\* `content.length && properties.length && !!query`
ShouldFilter(c, props, q) == c # <<>> /\ props # <<>> /\ q # <<>>

\* the value applyFilter sets filteredContent to, for the raw inputs.
\* `this.get('content') || []` is never falsy, so the early return of line 185
\* is never taken.
applyFilter(c, p, q) ==
  LET props == normalizedProperties(p)
      nq == normalizedQuery(q)
  IN IF ShouldFilter(c, props, nq) THEN FilterItems(c, props, nq) ELSE c

(***************************************************************************)
(* The inputs of the model.                                                *)
(***************************************************************************)
kTags == <<"t", "a", "g", "s">>
kName == <<"n", "a", "m", "e">>
kXs == <<"x", "s">>
kA == <<"a">>
kB == <<"b">>
kC == <<"c">>
kN == <<"n">>
sRed == <<"r", "e", "d">>
sCapRed == <<"R", "e", "d">>
sBlue == <<"b", "l", "u", "e">>
sGreen == <<"g", "r", "e", "e", "n">>

\* {tags: ["red", "blue"]}
ItemRedBlue == Obj(<< <<kTags, Arr(<<Str(sRed), Str(sBlue)>>)>> >>)
\* {tags: ["green"]}
ItemGreen == Obj(<< <<kTags, Arr(<<Str(sGreen)>>)>> >>)
\* {name: "red", n: 123}
ItemNameRed == Obj(<< <<kName, Str(sRed)>>, <<kN, Num(123)>> >>)
\* {name: "Red", n: true}
ItemNameCapRed == Obj(<< <<kName, Str(sCapRed)>>, <<kN, Bool(TRUE)>> >>)
\* {a: {b: {c: "red"}}}
ItemNested == Obj(<< <<kA, Obj(<< <<kB, Obj(<< <<kC, Str(sRed)>> >>)>> >>)>> >>)
\* {name: "blue", n: 0}: no `a`, a falsy number
ItemZero == Obj(<< <<kName, Str(sBlue)>>, <<kN, Num(0)>> >>)
\* {name: "", n: false}
ItemFalse == Obj(<< <<kName, Str(<<>>)>>, <<kN, Bool(FALSE)>> >>)
\* {a: {b: null}, n: ["red"]}
ItemNullInside == Obj(<< <<kA, Obj(<< <<kB, Null>> >>)>>, <<kN, Arr(<<Str(sRed)>>)>> >>)
\* {xs: [null, {name: "red"}]}
ItemWithNull == Obj(<< <<kXs, Arr(<<Null, Obj(<< <<kName, Str(sRed)>> >>)>>)>> >>)
\* {xs: [{name: "blue"}, {name: "red"}]}
ItemPair == Obj(<< <<kXs, Arr(<<Obj(<< <<kName, Str(sBlue)>> >>),
                               Obj(<< <<kName, Str(sRed)>> >>)>>)>> >>)
\* {xs: [{name: "blue"}, ..., {name: "blue"}, {name: "red"}]}: as many
\* elements as the recursion limit
ItemBig ==
  Obj(<< <<kXs, Arr([k \in 1..RecursionLimit |->
                       Obj(<< <<kName, Str(IF k = RecursionLimit THEN sRed ELSE sBlue)>> >>)])>> >>)

pTagsEach == kTags \o <<Period>> \o AtEach
pXsEach == kXs \o <<Period>> \o AtEach
pXsEachName == pXsEach \o <<Period>> \o kName
pABC == <<"a", ".", "b", ".", "c">>

RECURSIVE SeqsUpTo(_, _)
\* the sequences over S of length at most n
SeqsUpTo(S, n) ==
  IF n = 0 THEN {<<>>}
  ELSE LET shorter == SeqsUpTo(S, n - 1)
       IN shorter \cup {Append(s, x) : s \in shorter, x \in S}

(***************************************************************************)
(* The component.                                                          *)
(***************************************************************************)
\* the state after init(): `this.applyFilter()` has run, no timer is set
init(c, p, q) ==
  /\ content = c
  /\ properties = p
  /\ query = q
  /\ filteredContent = applyFilter(c, p, q)
  /\ debounceFilter = FALSE
  /\ isDestroyed = FALSE
  /\ lastCaller = "init"

\* mutant: the observer does not schedule the debounced call
setFilterTimerNotScheduling == UNCHANGED debounceFilter

\* the observer: Ember.run.debounce (re)starts the timer of applyFilter
setFilterTimer == debounceFilter' = TRUE

\* `content` is set to another collection
SetContent(c) ==
  /\ ~isDestroyed
  /\ c # content
  /\ content' = c
  /\ setFilterTimer
  /\ UNCHANGED <<properties, query, filteredContent, isDestroyed, lastCaller>>

\* `properties` is set to another string
SetProperties(p) ==
  /\ ~isDestroyed
  /\ p # properties
  /\ properties' = p
  /\ setFilterTimer
  /\ UNCHANGED <<content, query, filteredContent, isDestroyed, lastCaller>>

\* `query` is set to another string
SetQuery(q) ==
  /\ ~isDestroyed
  /\ q # query
  /\ query' = q
  /\ setFilterTimer
  /\ UNCHANGED <<content, properties, filteredContent, isDestroyed, lastCaller>>

\* the timer of Ember.run.debounce expires: the pending call is taken off the
\* run loop
TimerExpires ==
  /\ ~isDestroyed
  /\ debounceFilter
  /\ debounceFilter' = FALSE
  /\ lastCaller' = "debounce"
  /\ UNCHANGED <<content, properties, query, isDestroyed>>

\* the debounce timer expires and runs applyFilter
DebouncedApplyFilter ==
  /\ TimerExpires
  /\ filteredContent' = applyFilter(content, properties, query)

\* willDestroy: Ember.run.cancel(this.get('debounceFilter'))
willDestroy ==
  /\ ~isDestroyed
  /\ isDestroyed' = TRUE
  /\ debounceFilter' = FALSE
  /\ UNCHANGED <<content, properties, query, filteredContent, lastCaller>>

(***************************************************************************)
(* Spec: the component over small collections.                             *)
(***************************************************************************)
Items == {ItemRedBlue, ItemGreen, ItemWithNull}

Contents == SeqsUpTo(Items, MaxContent)

\* "", "tags.@each", "xs.@each.name", "tags.@each xs.@each.name", "!!"
PropertyStrings ==
  {<<>>, pTagsEach, pXsEachName, pTagsEach \o <<Space>> \o pXsEachName, <<"!", "!">>}

\* "", "red", "\u", "(", "\"
QueryStrings == {<<>>, sRed, <<Backslash, "u">>, <<OpenParen>>, <<Backslash>>}

Init == \E c \in Contents, p \in PropertyStrings, q \in QueryStrings : init(c, p, q)

Next ==
  \/ \E c \in Contents : SetContent(c)
  \/ \E p \in PropertyStrings : SetProperties(p)
  \/ \E q \in QueryStrings : SetQuery(q)
  \/ DebouncedApplyFilter
  \/ willDestroy

Spec == Init /\ [][Next]_vars

(***************************************************************************)
(* LiveSpec: the component with the scheduling of Ember's run loop.        *)
(***************************************************************************)
LiveItems == {ItemRedBlue, ItemGreen}

LiveContents == SeqsUpTo(LiveItems, MaxContent)

LiveInit ==
  \E c \in LiveContents, p \in PropertyStrings, q \in QueryStrings : init(c, p, q)

LiveNext ==
  \/ \E c \in LiveContents : SetContent(c)
  \/ \E p \in PropertyStrings : SetProperties(p)
  \/ \E q \in QueryStrings : SetQuery(q)
  \/ DebouncedApplyFilter
  \/ willDestroy

\* Ember's run loop runs a debounced call once its timer expires.  The only
\* steps of LiveNext that are TimerExpires steps are those of
\* DebouncedApplyFilter, the two are enabled in the same states, and each
\* such step changes debounceFilter.
LiveSpec == LiveInit /\ [][LiveNext]_vars /\ WF_debounceFilter(TimerExpires)

(***************************************************************************)
(* SpecErrors: the component over items whose resolution fails.            *)
(***************************************************************************)
ErrorItems == {ItemBig, ItemWithNull, ItemPair}

ErrorContents == SeqsUpTo(ErrorItems, MaxContent)

\* "xs.@each.name", "name xs.@each.name"
ErrorProperties == {pXsEachName, kName \o <<Space>> \o pXsEachName}

\* "red", "blue", "("
ErrorQueries == {sRed, sBlue, <<OpenParen>>}

ErrorInit ==
  \E c \in ErrorContents, p \in ErrorProperties, q \in ErrorQueries : init(c, p, q)

ErrorNext ==
  \/ \E c \in ErrorContents : SetContent(c)
  \/ \E p \in ErrorProperties : SetProperties(p)
  \/ \E q \in ErrorQueries : SetQuery(q)
  \/ DebouncedApplyFilter
  \/ willDestroy

SpecErrors == ErrorInit /\ [][ErrorNext]_vars

(***************************************************************************)
(* SpecResolve: one item at a time, over items of every shape.             *)
(***************************************************************************)
ResolveItems ==
  {ItemRedBlue, ItemGreen, ItemNameRed, ItemNameCapRed, ItemNested, ItemZero,
   ItemFalse, ItemNullInside, ItemWithNull, ItemPair, ItemBig}

ResolveContents == {<<>>} \cup {<<x>> : x \in ResolveItems}

\* "tags.@each", "tags", "name", "n", "a.b.c", "a.b", "xs.@each.name",
\* "xs.@each", "n name"
ResolveProperties ==
  {pTagsEach, kTags, kName, kN, pABC, <<"a", ".", "b">>, pXsEachName, pXsEach,
   kN \o <<Space>> \o kName}

\* "red", "Red", "2", "e"
ResolveQueries == {sRed, sCapRed, <<"2">>, <<"e">>}

ResolveInit ==
  \E c \in ResolveContents, p \in ResolveProperties, q \in ResolveQueries : init(c, p, q)

ResolveNext ==
  \/ \E c \in ResolveContents : SetContent(c)
  \/ \E p \in ResolveProperties : SetProperties(p)
  \/ \E q \in ResolveQueries : SetQuery(q)
  \/ DebouncedApplyFilter
  \/ willDestroy

SpecResolve == ResolveInit /\ [][ResolveNext]_vars

(***************************************************************************)
(* SpecNormalize: every short raw `properties` string.                     *)
(***************************************************************************)
PropAlphabet == {"a", Period, Space, "!"}

\* "first.name  last..name"
pExample == <<"f", "i", "r", "s", "t", ".", "n", "a", "m", "e", " ", " ",
              "l", "a", "s", "t", ".", ".", "n", "a", "m", "e">>

RawProperties == SeqsUpTo(PropAlphabet, MaxPropLen) \cup {pExample}

NormalizeContents == {<<ItemNested>>, <<ItemNested, ItemZero>>}

NormalizeInit ==
  \E c \in NormalizeContents, p \in RawProperties : init(c, p, sRed)

NormalizeNext ==
  \/ \E c \in NormalizeContents : SetContent(c)
  \/ \E p \in RawProperties : SetProperties(p)
  \/ DebouncedApplyFilter
  \/ willDestroy

SpecNormalize == NormalizeInit /\ [][NormalizeNext]_vars

(***************************************************************************)
(* The properties.                                                         *)
(***************************************************************************)
\* applyFilter has run on the current inputs: no timer is running
Applied == ~debounceFilter /\ ~isDestroyed

Paths == normalizedProperties(properties)

Pattern == normalizedQuery(query)

UpToDate == filteredContent = applyFilter(content, properties, query)

\* C1: when the normalized properties, the normalized query or the content is
\* empty, applyFilter sets filteredContent to the content itself, unchanged.
C1_IdentityWhenNothingToFilter ==
  (Applied /\ (Paths = <<>> \/ Pattern = <<>> \/ content = <<>>))
    => filteredContent = content

\* a debounced run with content and paths, whose query is only backslashes
C1_Witness ==
  /\ Applied /\ lastCaller = "debounce"
  /\ content # <<>> /\ Paths # <<>> /\ query # <<>> /\ Pattern = <<>>
  /\ filteredContent = content

\* some value of the item over some path matches the pattern
ItemMatches(item, paths, pattern) ==
  \E i \in 1..Len(paths) :
    LET vals == TopLevelValues(item, paths[i])
    IN \E j \in 1..Len(vals) : IsTrue(aContainsB(vals[j], pattern))

\* the items of c that match, in the order of c
Matching(c, paths, pattern) ==
  LET Test(item) == ItemMatches(item, paths, pattern)
  IN SelectSeq(c, Test)

\* C2: with content, paths and pattern all non-empty, filteredContent is
\* exactly the subsequence of the content whose items have a matching value
\* over some path.
C2_ExactlyTheMatchingItems ==
  (Applied /\ content # <<>> /\ Paths # <<>> /\ Pattern # <<>>)
    => filteredContent = Matching(content, Paths, Pattern)

\* a debounced run that kept one item and removed another
C2_Witness ==
  /\ Applied /\ lastCaller = "debounce"
  /\ Paths # <<>> /\ Pattern # <<>>
  /\ filteredContent # <<>> /\ filteredContent # content

\* C3: filtering the result of applyFilter again, with the same properties
\* and query, gives that result again.
C3_Idempotent ==
  Applied => applyFilter(filteredContent, properties, query) = filteredContent

\* a run that removed an item and kept another, which a second pass visits
C3_Witness ==
  /\ Applied /\ lastCaller = "debounce"
  /\ Len(filteredContent) = 1 /\ Len(content) = 2
  /\ Paths # <<>> /\ Pattern # <<>>

\* C10: filteredContent is the filter of the inputs whenever no timer is
\* running (after init, and after every debounced run), and a running timer
\* leads to a run of applyFilter on the latest inputs unless the component is
\* destroyed first.
C10_TracksInputs ==
  /\ [](Applied => UpToDate)
  /\ (debounceFilter /\ ~isDestroyed) ~> (isDestroyed \/ (Applied /\ UpToDate))

\* a debounced run that changed filteredContent after a change of the inputs
C10_Witness ==
  /\ Applied /\ lastCaller = "debounce" /\ UpToDate
  /\ filteredContent # content /\ filteredContent # <<>>

(***************************************************************************)
(* Failures (SpecErrors).                                                  *)
(***************************************************************************)
\* some call made while resolving the path against the item threw
ResolutionFails(item, path) ==
  \E call \in getContentProps(item, path, 0).calls : call.thrown

\* matching the value raises an exception inside aContainsB
MatchRaises(v, pattern) ==
  typeOf(v) \in matchTypes /\ (RegExpThrows(pattern) \/ MatchThrows(v))

\* the values the filter gathers for the item over all the paths
AllValues(item, paths) == GatherValues(<<>>, item, paths)

\* some resolution or some match of the item fails
Fails(item, paths, pattern) ==
  LET vals == AllValues(item, paths)
  IN \/ \E i \in 1..Len(paths) : ResolutionFails(item, paths[i])
     \/ \E j \in 1..Len(vals) : MatchRaises(vals[j], pattern)

\* every match of the item fails, or there is nothing to match
EveryMatchFails(item, paths, pattern) ==
  LET vals == AllValues(item, paths)
  IN \A j \in 1..Len(vals) :
       MatchRaises(vals[j], pattern) \/ typeOf(vals[j]) \notin matchTypes

\* what the callback of content.filter returned for each item of c
Returned(c, paths, pattern) ==
  LET steps == FilterSteps(c, paths, pattern, 1)
  IN [k \in 1..Len(c) |-> steps[k].matched]

RemoveAt(c, i) == SubSeq(c, 1, i - 1) \o SubSeq(c, i + 1, Len(c))

\* C8: a failing resolution or match contributes no match; applyFilter still
\* sets filteredContent; the other items are kept or removed as they are
\* without the failing item; when every match fails the result is empty.
C8_FailuresAreContained ==
  (Applied /\ content # <<>> /\ Paths # <<>> /\ Pattern # <<>>) =>
    LET ret == Returned(content, Paths, Pattern)
        hopeless == [i \in 1..Len(content) |-> EveryMatchFails(content[i], Paths, Pattern)]
    IN /\ filteredContent = FilterItems(content, Paths, Pattern)
       /\ \A i \in 1..Len(content) :
            /\ hopeless[i] => ~ret[i]
            /\ Fails(content[i], Paths, Pattern) =>
                 LET without == Returned(RemoveAt(content, i), Paths, Pattern)
                 IN \A j \in (1..Len(content)) \ {i} :
                      ret[j] = without[IF j < i THEN j ELSE j - 1]
       /\ (\A i \in 1..Len(content) : hopeless[i]) => filteredContent = <<>>

\* a debounced run over an item that hit the recursion limit and lost its
\* match, followed by an item that was kept
C8_Witness ==
  /\ Applied /\ lastCaller = "debounce"
  /\ content = <<ItemBig, ItemPair>> /\ Pattern = sRed
  /\ ResolutionFails(ItemBig, Paths[1])
  /\ filteredContent = <<ItemPair>>

(***************************************************************************)
(* Resolution and matching (SpecResolve).                                  *)
(***************************************************************************)
\* the resolution of the path `rest` against one element, as a sequence: the
\* element itself when no path remains
Resolved(element, rest) ==
  IF rest = <<>> THEN <<element>>
  ELSE LET r == getContentProps(element, rest, 0)
       IN IF r.thrown THEN <<>> ELSE r.values

IsPlainElement(v) == typeOf(v) \notin {"null", "undefined", "array"}

\* C4: for a path `key.@each[.rest]` over an array of elements that are
\* neither null nor arrays, the values are the resolutions of `rest` against
\* every element, concatenated in element order, whatever the size of the
\* array; and filtering [{tags: ["red", "blue"]}] by "tags.@each" and "red"
\* keeps the item.
C4_WildcardCoversEveryElement ==
  /\ \A i \in 1..Len(content) : \A j \in 1..Len(Paths) :
       LET segs == SplitRuns(Paths[j], Period, <<>>)
           arr == Lookup(content[i].p, segs[1])
           rest == Join(SubSeq(segs, 3, Len(segs)))
       IN (/\ Len(segs) >= 2 /\ segs[2] = AtEach /\ typeOf(arr) = "array"
           /\ \A k \in 1..Len(arr.e) : IsPlainElement(arr.e[k]))
          => TopLevelValues(content[i], Paths[j])
               = FlattenRange([k \in 1..Len(arr.e) |-> Resolved(arr.e[k], rest)],
                              1, Len(arr.e))
  /\ (Applied /\ content = <<ItemRedBlue>> /\ Paths = <<pTagsEach>> /\ Pattern = sRed)
       => filteredContent = <<ItemRedBlue>>

\* C9: in every call of getContentProps made during one top-level
\* resolution, the depth argument is the number of segments already consumed
\* from the path, and only a call more than RecursionLimit segments deep
\* exceeds the limit.
C9_DepthCountsSegments ==
  \A i \in 1..Len(content) : \A j \in 1..Len(Paths) :
    LET total == Len(SplitRuns(Paths[j], Period, <<>>))
    IN \A call \in getContentProps(content[i], Paths[j], 0).calls :
         /\ call.inception = total - call.segments
         /\ ExceedsLimit(call.inception) => total - call.segments > RecursionLimit

DigitChars == <<"0", "1", "2", "3", "4", "5", "6", "7", "8", "9">>

RECURSIVE Digits(_)
\* the decimal digits of a natural number
Digits(n) ==
  IF n < 10 THEN <<DigitChars[n + 1]>>
  ELSE Digits(n \div 10) \o <<DigitChars[(n % 10) + 1]>>

\* the stringified form of a boolean, a number or a string
Stringified(v) ==
  CASE typeOf(v) = "string" -> v.s
    [] typeOf(v) = "number" -> Digits(v.n)
    [] typeOf(v) = "boolean" -> IF v.b THEN <<"t", "r", "u", "e">>
                                ELSE <<"f", "a", "l", "s", "e">>

\* C5: for a pattern without metacharacters, aContainsB is true exactly for
\* the booleans, numbers and strings whose stringified form contains the
\* pattern, and false, never an error, for any other value.
C5_MatchesStringifiedScalars ==
  \A i \in 1..Len(content) : \A j \in 1..Len(Paths) :
    LET vals == TopLevelValues(content[i], Paths[j])
    IN \A k \in 1..Len(vals) :
         (Pattern # <<>> /\ ~RegExpThrows(Pattern)) =>
           aContainsB(vals[k], Pattern)
             = (IF typeOf(vals[k]) \in matchTypes /\ Contains(Stringified(vals[k]), Pattern)
                THEN "true" ELSE "false")

IsPlainPath(path) ==
  LET segs == SplitRuns(path, Period, <<>>)
  IN \A k \in 1..Len(segs) : segs[k] # AtEach /\ segs[k] # <<>>

RECURSIVE Walk(_, _)
\* following the segments from property to property: whether a property on
\* the way is missing, and the value at the end
Walk(item, segs) ==
  IF segs = <<>> THEN [missing |-> FALSE, value |-> item]
  ELSE IF typeOf(item) # "object" THEN [missing |-> TRUE, value |-> Undefined]
  ELSE LET v == Lookup(item.p, Head(segs))
       IN IF typeOf(v) = "undefined" THEN [missing |-> TRUE, value |-> Undefined]
          ELSE Walk(v, Tail(segs))

\* C7 as stated: a path without @each resolves to the empty sequence exactly
\* when a property on the way is missing, and otherwise to the one-element
\* sequence of the value at its end, whatever that value is.
C7_PlainPathWrapsTheValue ==
  \A i \in 1..Len(content) : \A j \in 1..Len(Paths) :
    IsPlainPath(Paths[j]) =>
      LET r == getContentProps(content[i], Paths[j], 0)
          w == Walk(content[i], SplitRuns(Paths[j], Period, <<>>))
      IN ~r.thrown /\ r.values = (IF w.missing THEN <<>> ELSE <<w.value>>)

\* C7 as amended: a path without @each resolves, without an error, to the
\* empty sequence exactly when a property on the way is missing or the value
\* at its end is falsy or an empty array; otherwise to the elements of the
\* value at its end when that is an array, and to the one-element sequence of
\* that value when it is not.
C7_PlainPathAmended ==
  \A i \in 1..Len(content) : \A j \in 1..Len(Paths) :
    IsPlainPath(Paths[j]) =>
      LET r == getContentProps(content[i], Paths[j], 0)
          w == Walk(content[i], SplitRuns(Paths[j], Period, <<>>))
      IN /\ ~r.thrown
         /\ r.values = (IF w.missing \/ ~Truthy(w.value) THEN <<>>
                        ELSE IF typeOf(w.value) = "array" THEN w.value.e
                        ELSE <<w.value>>)

\* a debounced run that resolved "a.b.c" against an item without `a`
C7_Witness ==
  /\ Applied /\ lastCaller = "debounce"
  /\ content = <<ItemZero>> /\ Paths = <<pABC>>
  /\ getContentProps(ItemZero, pABC, 0).values = <<>>
  /\ filteredContent = <<>>

(***************************************************************************)
(* Normalization (SpecNormalize).                                          *)
(***************************************************************************)
\* C6: every normalized path is non-empty, has no whitespace and splits on
\* periods into non-empty segments; "first.name  last..name" gives
\* "first.name" and "last.name", in that order.
C6_PathsAreClean ==
  /\ \A j \in 1..Len(Paths) :
       /\ Paths[j] # <<>>
       /\ \A k \in 1..Len(Paths[j]) : Paths[j][k] # Space
       /\ LET segs == SplitRuns(Paths[j], Period, <<>>)
          IN \A k \in 1..Len(segs) : segs[k] # <<>>
  /\ properties = pExample =>
       Paths = << <<"f", "i", "r", "s", "t", ".", "n", "a", "m", "e">>,
                  <<"l", "a", "s", "t", ".", "n", "a", "m", "e">> >>
====
